---- MODULE Spec2Model ----
(***************************************************************************)
(* Zero validation and refinement engine of t_assessing.py                 *)
(* (validate_zeta_zero and its helpers) as a state machine.                *)
(*                                                                         *)
(* Number conventions                                                      *)
(*   - A real ball is a record [mid, rad] of integers.  The magnitude      *)
(*     balls |zeta|, |zeta'| and the threshold share one unit; float() of  *)
(*     such an integer is the integer itself.                              *)
(*   - A position t on the vertical line is [grid, nudges]: the real       *)
(*     number grid/16000 - nudges * 1e-12.  One "tick" is 1/16 of a        *)
(*     thousandth, so a step that is a whole number of thousandths can be  *)
(*     halved four times exactly; the 1e-12 nudge is far below one tick    *)
(*     and is counted apart.                                               *)
(*   - spacing_est and the cap are computed in thousandths ("milli").      *)
(*   - The ball-arithmetic provider (python-flint) is external: a value it *)
(*     returns is drawn from a small set, and the value at the current     *)
(*     point (sigma, refined_t) at the current precision is remembered in  *)
(*     `known`, because the provider is a function of point and precision. *)
(***************************************************************************)
EXTENDS Integers, FiniteSets, Sequences, TLC

VARIABLES
    req,          \* the arguments of validate_zeta_zero
    pc,           \* position in validate_zeta_zero
    dps,          \* ctx.dps, the provider's working precision (decimal digits)
    zeta_val,     \* zeta at the input point: [t, a] with a = |zeta_val|
    zero_likely,
    refined_t,
    it,           \* iterations of the for loop completed
    a0,           \* |z0| of the current iteration
    a1,           \* |z1| of the current iteration
    dt,           \* the increment after the cap
    trial_dt,
    tr,           \* backtracking trials made in the current iteration
    known,        \* provider values at (refined_t, known.dps)
    a_final,
    exit,         \* how the loop was left: "none", "converged", "exhausted"
    escIter,      \* precision escalations in the current iteration
    everFlat,     \* some iteration found the derivative lower bound 0
    fault,        \* a division was made by a ball that contains 0
    call,         \* 1: first call, 2: call on the first call's refined_t
    first,        \* what the first call reported (set when call 2 starts)
    probe         \* input and output of a lone ball_is_small call

vars == <<req, pc, dps, zeta_val, zero_likely, refined_t, it, a0, a1, dt, trial_dt,
          tr, known, a_final, exit, escIter, everFlat, fault, call, first, probe>>

----------------------------------------------------------------------------
\* Bounds of the model

MaxIters == 2
MaxMid == 2

\* Program constants
GuardDigits == 20
EscalateDps == 10
MaxTrials == 5
TwoPi == 6283
EulerE == 2718
TGuard == 10000
TinySpacing == 0
HalleyThresh == 2

TicksPerMilli == 2 ^ (MaxTrials - 1)

----------------------------------------------------------------------------
\* Helpers

Abs(x) == IF x < 0 THEN -x ELSE x
Max(x, y) == IF x >= y THEN x ELSE y

NoBall == [mid |-> -1, rad |-> -1]
NoKnown == [dps |-> 0, ball |-> NoBall, der |-> NoBall]

Balls == [mid : 0..MaxMid, rad : 0..1]
DerivBalls == {[mid |-> m, rad |-> 1] : m \in 1..2}
DenomBalls == {[mid |-> 1, rad |-> 0], [mid |-> 1, rad |-> 1], [mid |-> 3, rad |-> 1]}
DtSet == {-1600, 0, 64000}

TSet == {[grid |-> 1600000, nudges |-> 0]}
BitsSet == {1, 64}
ThrSet == {2}

CeilDiv(a, b) == (a + b - 1) \div b

\* dps = int(math.ceil(bits * math.log10(2))) + 20, log10(2) = 0.30103
set_precision_bits(bits) == CeilDiv(bits * 30103, 100000) + GuardDigits

ball_is_small_NoAbs(a, thresh) ==
    (a.rad >= a.mid) \/ (a.mid + a.rad < thresh)

ball_is_small(a, thresh) ==
    (a.rad >= Abs(a.mid)) \/ (Abs(a.mid) + a.rad < thresh)

safe_upper(a) == a.mid + a.rad

safe_lower_nonneg(a) == Max(0, a.mid - a.rad)

RECURSIVE FloorLog2(_)
FloorLog2(n) == IF n < 2 THEN 0 ELSE 1 + FloorLog2(n \div 2)

\* math.log on thousandths: ln x = ln 2 * log2 x, log2 x = k + log2(x / 2^k)
\* with k = floor(log2 x) and log2(1 + f) taken as f on [0, 1).
Ln(x) ==
    LET k == FloorLog2(x \div 1000)
        log2 == 1000 * k + ((x \div (2 ^ k)) - 1000)
    IN (693 * log2) \div 1000

spacing_est(t_f) ==
    LET t_guard == Max(t_f, TGuard)
        x == (t_guard * 1000) \div TwoPi
        denom == Max(Ln(Max(x, EulerE)), 1000)
    IN (TwoPi * 1000) \div denom

\* float(refined_t.mid()) in thousandths, rounded down
FloatMid(t) ==
    IF t.nudges > 0 /\ t.grid % TicksPerMilli = 0
    THEN (t.grid \div TicksPerMilli) - 1
    ELSE t.grid \div TicksPerMilli

\* cap = 0.3 * max(1e-12, spacing_est(t_float)), in ticks
Cap(t) == TicksPerMilli * ((3 * Max(TinySpacing, spacing_est(FloatMid(t)))) \div 10)

\* dt *= (cap / abs(dt_f))
ScaleToCap(d, cap) == (d * cap) \div Abs(d)

Sub(t, d) == [t EXCEPT !.grid = @ - d]
Nudge(t) == [t EXCEPT !.nudges = @ + 1]

\* Two enclosures of one value have a point in common.
Overlap(a, b) == Abs(a.mid - b.mid) <= a.rad + b.rad

\* The provider's enclosures at (refined_t, d): the remembered one when the
\* point was evaluated at precision d; at another precision any enclosure
\* of the same value, so one that meets the remembered one.
BallAt(k, d) ==
    IF k.ball = NoBall THEN Balls
    ELSE IF k.dps = d THEN {k.ball}
    ELSE {b \in Balls : Overlap(b, k.ball)}

DerAt(k, d) ==
    IF k.der = NoBall THEN DerivBalls
    ELSE IF k.dps = d THEN {k.der}
    ELSE {b \in DerivBalls : Overlap(b, k.der)}

Escalated_Down(d) == d - EscalateDps

\* line 141: ctx.dps += 10
Escalated(d) == d + EscalateDps

AfterValidate_AlwaysRefine(zl) == "iter"

\* line 126: refine only when the input enclosure is not small
AfterValidate(zl) == IF zl THEN "done" ELSE "iter"

\* lines 139 and 144: safe_lower_nonneg(a1) == 0.0
Flat(d1) == safe_lower_nonneg(d1) = 0

StillFlat_Never(d1) == FALSE

\* line 144: the derivative is still flat after the escalation
StillFlat(d1) == Flat(d1)

HalleyUsable_Always(den) == TRUE

\* line 161: the Halley denominator is not degenerate
HalleyUsable(den) == ~ball_is_small(den, HalleyThresh)

Capped_NoCap(d, cap) == d

\* lines 169-170: if abs(dt_f) > cap: dt *= (cap / abs(dt_f))
Capped(d, cap) == IF Abs(d) > cap THEN ScaleToCap(d, cap) ELSE d

TrialAllowed_OffByOne(k) == k <= MaxTrials

\* line 176: for _ in range(5)
TrialAllowed(k) == k < MaxTrials

\* line 180: ub < old_ub
Improves(ub, old_ub) == ub < old_ub

IdleProbe == [mid |-> 0, rad |-> 0, thresh |-> 1, out |-> "idle"]
NoFirst == [ub |-> -1, zero_likely |-> FALSE, escalated |-> FALSE,
            refined |-> FALSE]

----------------------------------------------------------------------------
\* Everything but the arguments, the position and the probe
Fresh ==
    /\ dps = 15
    /\ zeta_val = [t |-> req.t, a |-> NoBall]
    /\ zero_likely = FALSE
    /\ refined_t = req.t
    /\ it = 0
    /\ a0 = NoBall
    /\ a1 = NoBall
    /\ dt = 0
    /\ trial_dt = 0
    /\ tr = 0
    /\ known = NoKnown
    /\ a_final = NoBall
    /\ exit = "none"
    /\ escIter = 0
    /\ everFlat = FALSE
    /\ fault = FALSE
    /\ call = 1
    /\ first = NoFirst

Requests ==
    [t : TSet, prec_bits : BitsSet, zero_threshold : ThrSet,
     newton_iters : 0..MaxIters, try_halley : BOOLEAN]

Init ==
    /\ req \in Requests
    /\ pc = "start"
    /\ probe = IdleProbe
    /\ Fresh

FinalZeroLikely_Stale(b) == zero_likely

\* line 195 (and line 134 before it): the flag that is returned
FinalZeroLikely(b) == ball_is_small(b, req.zero_threshold)

\* lines 111-126: set the precision, evaluate at the input, classify
Validate ==
    /\ pc = "start"
    /\ LET d == set_precision_bits(req.prec_bits) IN
       \E b \in BallAt(known, d) :
          LET zl == ball_is_small(b, req.zero_threshold) IN
          /\ dps' = d
          /\ zeta_val' = [t |-> req.t, a |-> b]
          /\ zero_likely' = zl
          /\ refined_t' = req.t
          /\ known' = [dps |-> d, ball |-> b,
                       der |-> IF known.dps = d THEN known.der ELSE NoBall]
          /\ pc' = AfterValidate(zl)
    /\ UNCHANGED <<req, it, a0, a1, dt, trial_dt, tr, a_final, exit, escIter,
                   everFlat, fault, call, first, probe>>

\* The locals of one loop iteration are dead once it ends.
EndIteration ==
    /\ it' = it + 1
    /\ a0' = NoBall
    /\ dt' = 0
    /\ trial_dt' = 0
    /\ tr' = 0
    /\ escIter' = 0
    /\ pc' = "iter"

\* lines 127-139: evaluate at refined_t; stop when the enclosure is small,
\* otherwise look at the lower bound of |zeta'|
IterEval ==
    /\ pc = "iter"
    /\ it < req.newton_iters
    /\ \E b \in BallAt(known, dps), d1 \in DerAt(known, dps) :
          IF ball_is_small(b, req.zero_threshold)
          THEN /\ zero_likely' = TRUE
               /\ exit' = "converged"
               /\ a0' = b
               /\ a1' = NoBall
               /\ known' = [known EXCEPT !.dps = dps, !.ball = b]
               /\ pc' = "final"
          ELSE /\ a0' = b
               /\ a1' = d1
               /\ known' = [dps |-> dps, ball |-> b, der |-> d1]
               /\ pc' = IF Flat(d1) THEN "escalate" ELSE "step"
               /\ UNCHANGED <<zero_likely, exit>>
    /\ UNCHANGED <<req, dps, zeta_val, refined_t, it, dt, trial_dt, tr,
                   a_final, escIter, everFlat, fault, call, first, probe>>

\* line 127: range(newton_iters) is used up
LoopExhausted ==
    /\ pc = "iter"
    /\ it >= req.newton_iters
    /\ exit' = "exhausted"
    /\ a1' = NoBall
    /\ pc' = "final"
    /\ UNCHANGED <<req, dps, zeta_val, zero_likely, refined_t, it, a0, dt,
                   trial_dt, tr, known, a_final, escIter, everFlat, fault,
                   call, first, probe>>

\* lines 139-147: the derivative enclosure does not exclude 0: ten more
\* digits, one re-evaluation, and a nudge when it is still flat
Escalate ==
    /\ pc = "escalate"
    /\ LET d == Escalated(dps) IN
       \E b \in BallAt(known, d), d1 \in DerAt(known, d) :
          /\ dps' = d
          /\ a1' = d1
          /\ everFlat' = TRUE
          /\ IF StillFlat(d1)
             THEN /\ refined_t' = Nudge(refined_t)
                  /\ known' = NoKnown
                  /\ EndIteration
             ELSE /\ known' = [dps |-> d, ball |-> b, der |-> d1]
                  /\ escIter' = escIter + 1
                  /\ pc' = "step"
                  /\ UNCHANGED <<refined_t, it, a0, dt, trial_dt, tr>>
    /\ UNCHANGED <<req, zeta_val, zero_likely, a_final, exit, fault, call,
                   first, probe>>

\* lines 149-175: Newton increment, Halley correction, cap by spacing.
\* z0 / z1, (2*F*Fp) / denom and cap / abs(dt_f) are the divisions.
NewtonStep ==
    /\ pc = "step"
    /\ \E n \in DtSet, h \in DtSet,
          den \in (IF req.try_halley THEN DenomBalls ELSE {NoBall}) :
          LET useHalley == req.try_halley /\ HalleyUsable(den)
              raw == IF useHalley THEN h ELSE n
              cap == Cap(refined_t)
          IN /\ dt' = Capped(raw, cap)
             /\ trial_dt' = Capped(raw, cap)
             /\ fault' = \/ fault
                         \/ Flat(a1)
                         \/ (useHalley /\ den.rad >= den.mid)
                         \/ (Abs(raw) > cap /\ raw = 0)
    /\ tr' = 0
    /\ pc' = "trial"
    /\ UNCHANGED <<req, dps, zeta_val, zero_likely, refined_t, it, a0, a1,
                   known, a_final, exit, escIter, everFlat, call, first, probe>>

\* lines 176-184: one backtracking trial
Trial ==
    /\ pc = "trial"
    /\ TrialAllowed(tr)
    /\ LET trial_t == Sub(refined_t, trial_dt) IN
       \E b \in (IF trial_dt = 0 THEN BallAt(known, dps) ELSE Balls) :
          IF Improves(safe_upper(b), safe_upper(a0))
          THEN /\ refined_t' = trial_t
               /\ known' = IF trial_dt = 0 THEN known
                           ELSE [dps |-> dps, ball |-> b, der |-> NoBall]
               /\ a1' = NoBall
               /\ EndIteration
          ELSE /\ trial_dt' = IF tr + 1 >= MaxTrials THEN 0 ELSE trial_dt \div 2
               /\ tr' = tr + 1
               /\ UNCHANGED <<refined_t, known, it, a0, a1, dt, escIter, pc>>
    /\ UNCHANGED <<req, dps, zeta_val, zero_likely, a_final, exit, everFlat,
                   fault, call, first, probe>>

\* lines 185-186: no trial lowered the upper bound
BacktrackFail ==
    /\ pc = "trial"
    /\ ~TrialAllowed(tr)
    /\ refined_t' = Nudge(refined_t)
    /\ known' = NoKnown
    /\ a1' = NoBall
    /\ EndIteration
    /\ UNCHANGED <<req, dps, zeta_val, zero_likely, a_final, exit, everFlat,
                   fault, call, first, probe>>

\* lines 188-201: re-evaluate at the final point, classify, return
FinalReport ==
    /\ pc = "final"
    /\ \E b \in BallAt(known, dps) :
          /\ a_final' = b
          /\ zero_likely' = FinalZeroLikely(b)
          /\ known' = [dps |-> dps, ball |-> b,
                       der |-> IF known.dps = dps THEN known.der ELSE NoBall]
    /\ a0' = NoBall
    /\ pc' = "done"
    /\ UNCHANGED <<req, dps, zeta_val, refined_t, it, a1, dt, trial_dt, tr,
                   exit, escIter, everFlat, fault, call, first, probe>>

Next ==
    \/ Validate
    \/ IterEval
    \/ LoopExhausted
    \/ Escalate
    \/ NewtonStep
    \/ Trial
    \/ BacktrackFail
    \/ FinalReport

Spec == Init /\ [][Next]_vars

----------------------------------------------------------------------------
\* A second call on the first call's refined_t, same configuration.

\* lines 122 and 194: the upper bound a call prints last
ReportedUB ==
    IF exit = "none" THEN safe_upper(zeta_val.a) ELSE safe_upper(a_final)

\* The second-call check runs each call for at most one iteration.
RepeatIters == {0, 1}

\* lines 93-114: validate_zeta_zero called again with t = the returned
\* refined_t (an arb is taken as it is); ctx.dps and the provider carry over
SecondCall ==
    /\ pc = "done"
    /\ call = 1
    /\ call' = 2
    /\ first' = [ub |-> ReportedUB, zero_likely |-> zero_likely,
                 escalated |-> everFlat, refined |-> exit # "none"]
    /\ req' = [req EXCEPT !.t = refined_t]
    /\ zeta_val' = [t |-> refined_t, a |-> NoBall]
    /\ zero_likely' = FALSE
    /\ it' = 0
    /\ a1' = NoBall
    /\ a_final' = NoBall
    /\ exit' = "none"
    /\ everFlat' = FALSE
    /\ pc' = "start"
    /\ UNCHANGED <<dps, refined_t, a0, dt, trial_dt, tr, known, escIter,
                   fault, probe>>

InitRepeat ==
    /\ Init
    /\ req.newton_iters \in RepeatIters

NextRepeat ==
    \/ Next
    \/ SecondCall

SpecRepeat == InitRepeat /\ [][NextRepeat]_vars

----------------------------------------------------------------------------
\* ball_is_small on its own, over balls of either sign.

InitClassify ==
    /\ req \in {r \in Requests :
                  r.newton_iters = 0 /\ r.try_halley /\ r.prec_bits = 1}
    /\ pc = "classify"
    /\ probe \in [mid : (-MaxMid)..MaxMid, rad : 0..MaxMid,
                  thresh : 1..(2 * MaxMid + 1), out : {"none"}]
    /\ Fresh

\* lines 39-46
Classify ==
    /\ pc = "classify"
    /\ probe.out = "none"
    /\ probe' = [probe EXCEPT !.out =
                    IF ball_is_small([mid |-> probe.mid, rad |-> probe.rad],
                                     probe.thresh)
                    THEN "small" ELSE "not small"]
    /\ UNCHANGED <<req, pc, dps, zeta_val, zero_likely, refined_t, it, a0, a1,
                   dt, trial_dt, tr, known, a_final, exit, escIter, everFlat,
                   fault, call, first>>

SpecClassify == InitClassify /\ [][Classify]_vars

----------------------------------------------------------------------------
\* Properties

\* |new - old| <= B ticks, for positions new = old + D ticks - k nudges
WithinTicks(D, k, B) == D <= B /\ (D > -B \/ (D = -B /\ k = 0))

Dist(new, old, B) ==
    WithinTicks(new.grid - old.grid, new.nudges - old.nudges, B)

\* The largest value of the cap: spacing_est is 2 pi for t <= 10
CapMax == Cap([grid |-> 0, nudges |-> 0])

\* C1: a run that entered refinement returns zero_likely = the classification
\* of the enclosure re-evaluated at the returned refined_t after the loop; a
\* run that left the loop because an enclosure classified small returns
\* TRUE, an exhausted run whose final enclosure is not small returns FALSE.
C1_FinalClassification ==
    (pc = "done" /\ exit # "none") =>
        /\ known.dps = dps /\ a_final = known.ball
        /\ zero_likely = ball_is_small(a_final, req.zero_threshold)
        /\ (exit = "converged" => zero_likely)
        /\ (exit = "exhausted" /\ ~ball_is_small(a_final, req.zero_threshold)
               => ~zero_likely)

C1_Witness ==
    pc = "done" /\ exit = "converged" /\ it >= 1 /\ zero_likely

\* C2: ball_is_small is true exactly when rad >= |mid| or |mid| + rad <
\* thresh: true for every degenerate ball whatever the threshold, true when
\* the upper bound is under the threshold, false when rad < |mid| and
\* |mid| - rad >= thresh.
C2_Classifier ==
    probe.out \in {"small", "not small"} =>
        LET m == IF probe.mid < 0 THEN 0 - probe.mid ELSE probe.mid
            r == probe.rad
        IN /\ (r >= m => probe.out = "small")
           /\ (m + r < probe.thresh => probe.out = "small")
           /\ (r < m /\ m - r >= probe.thresh => probe.out = "not small")
           /\ (r < m /\ m + r >= probe.thresh => probe.out = "not small")

C2_Witness ==
    /\ probe.out = "not small"
    /\ probe.mid < 0
    /\ probe.rad > 0
    /\ (0 - probe.mid) - probe.rad < probe.thresh

\* C3: when the enclosure at the input classifies small, the call returns at
\* once: zero_likely TRUE, refined_t the input t, zeta_val the value at the
\* input, no iteration, step or nudge, and the precision as set from
\* prec_bits.
C3_ImmediateReturn ==
    [][(pc = "start" /\ ball_is_small(zeta_val'.a, req.zero_threshold)) =>
          /\ pc' = "done"
          /\ zero_likely'
          /\ refined_t' = req.t
          /\ zeta_val'.t = req.t /\ zeta_val'.a = known'.ball
          /\ it' = 0 /\ tr' = 0 /\ exit' = "none"
          /\ ~everFlat'
          /\ dps' = set_precision_bits(req.prec_bits)]_vars

C3_Witness ==
    pc = "done" /\ exit = "none" /\ zero_likely /\ refined_t = req.t

\* Steps a call can still take: each iteration takes at most MaxTrials + 4
\* (evaluation, escalation, increment, the trials, the nudge).
Rank ==
    LET perIter == MaxTrials + 4
        rest == 2 + perIter * (req.newton_iters - it)
    IN CASE pc = "start" -> rest + 1
         [] pc = "iter" -> rest
         [] pc = "escalate" -> rest - 1
         [] pc = "step" -> rest - 2
         [] pc = "trial" -> rest - 3 - tr
         [] pc = "final" -> 1
         [] OTHER -> 0

\* C4: every call terminates; the loop runs at most newton_iters iterations,
\* each with at most one precision escalation and at most 5 backtracking
\* trials.
C4_BoundedWork ==
    /\ [][Rank' < Rank]_vars
    /\ [](/\ Rank >= 0
          /\ it <= req.newton_iters
          /\ escIter <= 1
          /\ tr <= MaxTrials
          /\ (pc = "done" \/ ENABLED Next))

C4_Witness ==
    pc = "trial" /\ tr = MaxTrials /\ escIter = 1 /\ it + 1 = req.newton_iters

\* C5: once the precision is set from prec_bits it never decreases within
\* the run; it changes only by an escalation, which increases it.
C5_MonotonicPrecision ==
    [][pc # "start" =>
          /\ dps' >= dps
          /\ (dps' # dps => pc = "escalate" /\ dps' > dps)]_vars

C5_Witness ==
    pc = "done" /\ dps >= set_precision_bits(req.prec_bits) + 2 * EscalateDps

\* C6 as stated: the upper bound the second call reports is at most the
\* first call's final upper bound.
C6_Idempotent ==
    (call = 2 /\ pc = "done") => ReportedUB <= first.ub

\* C6 amended: it holds when the first call returned zero_likely = TRUE
\* and never escalated the precision; the second call then meets the same
\* enclosure at the same precision and returns at once.
C6_IdempotentWhenConverged ==
    (call = 2 /\ pc = "done" /\ first.zero_likely /\ ~first.escalated) =>
        /\ ReportedUB <= first.ub
        /\ exit = "none" /\ zero_likely /\ refined_t = req.t

C6_Witness ==
    /\ call = 2 /\ pc = "done"
    /\ first.zero_likely /\ ~first.escalated /\ first.refined
    /\ ReportedUB = first.ub

\* C7 as stated: after n iterations refined_t is within n * cap of the
\* input t, cap = 0.3 * max(1e-12, spacing(t)) taken at the input t.
C7_WithinInputCap ==
    Dist(refined_t, req.t, it * Cap(req.t))

\* C7 amended: each iteration moves refined_t by at most the cap computed
\* at that iteration's refined_t (a longer increment is scaled to the cap
\* exactly, backtracking only halves it), so after n iterations refined_t is
\* within n * 0.3 * 2 pi of the input t.
C7_WithinCurrentCap ==
    /\ [][/\ Dist(refined_t', refined_t, Cap(refined_t))
          /\ (pc = "step" =>
                 /\ Abs(dt') <= Cap(refined_t)
                 /\ (Abs(dt') < Cap(refined_t) => dt' \in DtSet))
          /\ (pc = "trial" /\ pc' = "trial" =>
                 Abs(trial_dt') * 2 <= Abs(trial_dt))]_vars
    /\ [](Dist(refined_t, req.t, it * CapMax))

C7_Witness ==
    /\ pc = "done" /\ it = 2
    /\ req.t.grid - refined_t.grid > 2 * Cap(req.t)

\* C8: no division is made by a ball that contains 0: z0 / z1 only with the
\* lower bound of |z1| above 0, the Halley quotient only with a denominator
\* not classified small, cap / |dt| only with |dt| > cap > 0; a flat
\* derivative, a degenerate Halley denominator and a failed backtracking
\* leave the loop running.
C8_NoFault ==
    /\ ~fault
    /\ (pc \in {"step", "trial"} => ~Flat(a1))
    /\ Cap(refined_t) > 0
    /\ (pc # "done" => ENABLED Next)

C8_Witness ==
    /\ pc = "trial" /\ tr = MaxTrials
    /\ everFlat /\ req.try_halley
    /\ Abs(dt) = Cap(refined_t)

\* C9: from the line search refined_t is replaced by the trial point only
\* if the upper bound there is strictly below old_ub; the first of up to 5
\* successive halvings that does so is accepted; when none does, refined_t
\* is decreased by exactly 1e-12; so refined_t changes in every iteration
\* that reaches the line search.
C9_LineSearchMoves ==
    /\ [][pc = "trial" =>
            \/ /\ pc' = "trial"
               /\ tr' = tr + 1 /\ tr < MaxTrials
               /\ refined_t' = refined_t
            \/ /\ pc' = "iter"
               /\ tr < MaxTrials
               /\ refined_t' = Sub(refined_t, trial_dt)
               /\ trial_dt * (2 ^ tr) = dt
               /\ known'.dps = dps /\ safe_upper(known'.ball) < safe_upper(a0)
               /\ refined_t' # refined_t
            \/ /\ pc' = "iter"
               /\ tr = MaxTrials
               /\ refined_t' = Nudge(refined_t)]_vars
    /\ [](pc = "trial" /\ tr < MaxTrials => trial_dt * (2 ^ tr) = dt)

\* C9 apart from one case: refined_t keeps its value when the increment is
\* exactly 0 and the precision was escalated in the iteration.  The trial
\* point is then refined_t itself, and its enclosure at the raised precision
\* is compared with old_ub, which comes from a0, taken before the escalation.
C9_LineSearchStaleBound ==
    /\ [][pc = "trial" =>
            \/ /\ pc' = "trial"
               /\ tr' = tr + 1 /\ tr < MaxTrials
               /\ refined_t' = refined_t
            \/ /\ pc' = "iter"
               /\ tr < MaxTrials
               /\ refined_t' = Sub(refined_t, trial_dt)
               /\ trial_dt * (2 ^ tr) = dt
               /\ known'.dps = dps /\ safe_upper(known'.ball) < safe_upper(a0)
               /\ refined_t' # refined_t \/ (dt = 0 /\ escIter = 1)
            \/ /\ pc' = "iter"
               /\ tr = MaxTrials
               /\ refined_t' = Nudge(refined_t)]_vars
    /\ [](pc = "trial" /\ tr < MaxTrials => trial_dt * (2 ^ tr) = dt)

\* C10: an iteration that meets a lower bound 0 of |zeta'| raises the
\* precision by exactly 10 digits and re-evaluates once; when the bound is
\* still 0, refined_t is decreased by 1e-12 and the iteration ends with no
\* step and no trial; so once a derivative was flat, the precision at the end
\* of the loop is at least 10 digits above the one set at the start, and no
\* fault is raised.
C10_Escalation ==
    /\ [][/\ (pc = "iter" /\ pc' # "final" /\ pc' # "iter"
                 => (Flat(a1') <=> pc' = "escalate"))
          /\ (pc = "escalate" =>
                 /\ dps' = dps + 10
                 /\ escIter = 0
                 /\ (Flat(a1') =>
                        /\ refined_t' = Nudge(refined_t)
                        /\ it' = it + 1 /\ pc' = "iter"
                        /\ tr' = 0 /\ dt' = 0)
                 /\ (~Flat(a1') =>
                        /\ refined_t' = refined_t
                        /\ it' = it /\ pc' = "step"))]_vars
    /\ [](/\ ~fault
          /\ (everFlat /\ pc \in {"final", "done"}
                 => dps >= set_precision_bits(req.prec_bits) + 10))

C10_Witness ==
    /\ pc = "done" /\ everFlat /\ exit = "exhausted"
    /\ refined_t.nudges = req.newton_iters
    /\ req.newton_iters > 0

====
